---- MODULE Spec2Model ----
(***************************************************************************)
(* route35: a DNS nameserver that answers for one zone from an in-memory   *)
(* record table (Config.Records), falls back to an ordered list of         *)
(* upstream nameservers, and lets an HTTP interface mutate the table.      *)
(*                                                                         *)
(* Names, keys and secrets are strings of the program; they are modelled   *)
(* as sequences of one-character strings so that strings.TrimSuffix,       *)
(* strings.Join and the suffix match of the DNS mux are computed, not      *)
(* assumed.  A *Record that may be nil, and every other optional value,    *)
(* is a sequence of length 0 or 1.                                         *)
(*                                                                         *)
(* Spec is the whole program with one DNS request goroutine and one HTTP   *)
(* goroutine; AdminSpec is the HTTP interface alone with a second          *)
(* goroutine serving LIST beside the one that writes.                      *)
(***************************************************************************)
EXTENDS Integers, Sequences, FiniteSets, TLC

VARIABLES
    Records,      \* config.Records: the map from key to *Record
    Nameservers,  \* config.Nameservers: fixed after the configuration is read
    fault,        \* "none", or how the process died: "race" | "panic"
    pc,           \* where the DNS request goroutine stands
    handler,      \* the handler the mux dispatched the request to
    request,      \* the *dns.Msg being handled
    answers,      \* RequestHandler: var answers []dns.RR
    unknown,      \* RequestHandler: var unknown []dns.Question
    record,       \* RequestHandler: record := config.Records[key] (last lookup)
    targets,      \* Resolve: targets (the names still pending)
    pending,      \* Resolve: the loop-local unknown, rebuilt from targets
    collected,    \* Resolve: var answers []dns.RR
    ns,           \* index of the nameserver the range loop is at
    sent,         \* the message of the exchange in flight (0 or 1)
    exchanges,    \* the exchanges that have returned, in order
    reply,        \* the messages written to the client with WriteMsg
    adminPc,      \* the HTTP request goroutine: "idle" | "writing"
    adminWrite,   \* the map assignment or delete it is in the middle of
    adminResp,    \* the last HTTP response: status code
    listPc,       \* a second HTTP goroutine, serving LIST: "idle" | "listing" | "done"
    listed,       \* the entries its JSON encoder has read from the map so far
    listSeen,     \* the contents the table has had, or a write in progress was
                  \* giving it, since that listing began
    mux,          \* dns.DefaultServeMux: the patterns registered with HandleFunc
    serving       \* the listener goroutine has reached its serve loop

vars == <<Records, Nameservers, fault, pc, handler, request, answers, unknown, record,
          targets, pending, collected, ns, sent, exchanges, reply,
          adminPc, adminWrite, adminResp, listPc, listed, listSeen, mux, serving>>

handlerVars == <<pc, handler, request, answers, unknown, record, targets, pending,
                 collected, ns, sent, exchanges, reply>>

adminVars == <<adminPc, adminWrite, adminResp>>

listVars == <<listPc, listed, listSeen>>

mainVars == <<mux, serving>>

----------------------------------------------------------------------------
(* Bounds and the finite universe the inputs are drawn from.               *)

MaxQuestions == 2

\* config.Name, the owned zone "z."
ConfigName == <<"z", ".">>

\* config.Secret
ConfigSecret == <<"s", "k">>

\* Host, the address the server is bound to
Host == <<"h">>

\* queried names: "a.z." under the zone, "c." outside it
QNames == { <<"a", ".", "z", ".">>, <<"c", ".">> }

\* keys the HTTP interface is called with: "a"
Keys == { <<"a">> }

\* record payloads the HTTP interface is called with
AdminRecords ==
    { [Address |-> "10.0.0.1", TTL |-> 300],
      [Address |-> "10.0.0.2", TTL |-> 60],
      [Address |-> "10.0.0.1", TTL |-> -1] }

IPv4Addresses == {"10.0.0.1", "10.0.0.2"}

NsA == [Address |-> "A:53", Timeout |-> "2s", Transport |-> "udp"]
NsB == [Address |-> "B:53", Timeout |-> "2s", Transport |-> "tcp"]

\* the nameserver lists a configuration may hold
NameserverConfigs == { <<>>, <<NsA>>, <<NsA, NsB>> }

\* the Secret header values a caller may present
HeaderChoices ==
    { <<>>, <<ConfigSecret>>, << <<"s">>, <<"k">> >>, << <<"s">> >> }

\* the JSON bodies a caller may send: a record, or one c.BindJSON rejects
Bodies == { <<>> } \cup { <<r>> : r \in AdminRecords }

Methods == {"LIST", "CREATE", "SHOW", "UPDATE", "DESTROY"}

----------------------------------------------------------------------------
(* Strings.                                                                *)

HasSuffix(s, suffix) ==
    /\ Len(s) >= Len(suffix)
    /\ SubSeq(s, Len(s) - Len(suffix) + 1, Len(s)) = suffix

\* strings.TrimSuffix
TrimSuffix(s, suffix) ==
    IF HasSuffix(s, suffix) THEN SubSeq(s, 1, Len(s) - Len(suffix)) ELSE s

\* strings.Join(parts, "")
RECURSIVE Join(_)
Join(parts) ==
    IF parts = <<>> THEN <<>> ELSE Head(parts) \o Join(Tail(parts))

----------------------------------------------------------------------------
(* DNS messages.                                                           *)

Question(name) == [Name |-> name, Qtype |-> "A", Qclass |-> "IN"]

\* a zero dns.Msg: new(dns.Msg), &dns.Msg{}
NewMsg ==
    [Response |-> FALSE, Rcode |-> "NOERROR", Authoritative |-> FALSE,
     RecursionAvailable |-> FALSE, Compress |-> FALSE,
     Question |-> <<>>, Answer |-> <<>>, Ns |-> <<>>, Extra |-> <<>>]

\* a query as a client sends it
Query(names) ==
    [NewMsg EXCEPT !.Question = [i \in 1..Len(names) |-> Question(names[i])]]

\* dns.NewRR accepts the template: a TTL that parses and an IPv4 address
ValidA(ttl, address) == ttl >= 0 /\ address \in IPv4Addresses

\* mutant: the record's TTL is dropped for the TTL of the NS template
ARecord_TemplateTTL(name, ttl, address) ==
    [Name |-> name, TTL |-> 3600, Type |-> "A", Data |-> address]

\* the RR of "%s %d IN A %s"
ARecord(name, ttl, address) ==
    [Name |-> name, TTL |-> ttl, Type |-> "A", Data |-> address]

\* the RR of "%s 3600 IN NS %s."
NSRecord ==
    [Name |-> ConfigName, TTL |-> 3600, Type |-> "NS", Data |-> Host \o <<".">>]

\* mutant: a reply without answers reports a name error
SetReply_NameError(msg, req) ==
    [msg EXCEPT !.Response = TRUE,
                !.Rcode = IF msg.Answer = <<>> THEN "NXDOMAIN" ELSE "NOERROR",
                !.Question = IF Len(req.Question) > 0
                             THEN <<req.Question[1]>> ELSE <<>>]

\* msg.SetReply(req): a success reply that copies the request's first question
SetReply(msg, req) ==
    [msg EXCEPT !.Response = TRUE,
                !.Rcode = "NOERROR",
                !.Question = IF Len(req.Question) > 0
                             THEN <<req.Question[1]>> ELSE <<>>]

\* msg.SetRcode(req, rcode)
SetRcode(msg, req, rcode) ==
    [msg EXCEPT !.Response = TRUE,
                !.Rcode = rcode,
                !.Question = IF Len(req.Question) > 0
                             THEN <<req.Question[1]>> ELSE <<>>]

\* mutant: WriteError without its SetRcode
ErrorMsg_NoRcode(req) ==
    [SetReply(NewMsg, req) EXCEPT !.Compress = FALSE, !.RecursionAvailable = TRUE]

\* WriteError: the message it puts on the response
ErrorMsg(req) ==
    SetRcode([SetReply(NewMsg, req) EXCEPT !.Compress = FALSE,
                                             !.RecursionAvailable = TRUE],
             req, "SERVFAIL")

----------------------------------------------------------------------------
(* The upstream nameservers: what an exchange may return.                  *)

\* the record nameserver server holds for a name
UpstreamRR(name, server) ==
    [Name |-> name, TTL |-> 0, Type |-> "A", Data |-> server.Address]

RECURSIVE Pick(_, _, _)
\* the answers to the questions at the indices in chosen, in question order
Pick(questions, chosen, server) ==
    IF questions = <<>> THEN <<>>
    ELSE LET n == Len(questions)
             front == Pick(SubSeq(questions, 1, n - 1), chosen, server)
         IN  IF n \in chosen
             THEN Append(front, UpstreamRR(questions[n].Name, server))
             ELSE front

\* a response of nameserver server to msg: it answers some of the questions
Response(msg, chosen, server) ==
    [NewMsg EXCEPT !.Response = TRUE,
                   !.RecursionAvailable = TRUE,
                   !.Question = msg.Question,
                   !.Answer = Pick(msg.Question, chosen, server),
                   !.Extra = <<[Name |-> <<".">>, TTL |-> 0, Type |-> "TXT",
                                Data |-> server.Address]>>]

\* c.Exchange(msg, server.Address): r and err
Outcomes(msg, server) ==
    { [err |-> "failed", r |-> <<>>] } \cup
    { [err |-> e, r |-> <<Response(msg, chosen, server)>>] :
        e \in {"nil", "truncated"},
        chosen \in SUBSET (1..Len(msg.Question)) }

----------------------------------------------------------------------------
(* The record table.                                                       *)

\* config.Records[key]: the *Record, nil when the key is absent
Get(table, key) ==
    IF key \in DOMAIN table THEN <<table[key]>> ELSE <<>>

\* mutant: an existing entry is kept, not replaced
Set_IfAbsent(table, key, value) ==
    [k \in DOMAIN table \cup {key} |-> IF k \in DOMAIN table THEN table[k] ELSE value]

\* config.Records[key] = &record
Set(table, key, value) ==
    [k \in DOMAIN table \cup {key} |-> IF k = key THEN value ELSE table[k]]

\* delete(config.Records, key)
Delete(table, key) ==
    [k \in DOMAIN table \ {key} |-> table[k]]

\* the table after the write w
Applied(table, w) ==
    IF w.value = <<>> THEN Delete(table, w.key) ELSE Set(table, w.key, w.value[1])

\* what a lookup of key can return: the map is not locked, so a lookup that
\* overlaps a write in progress reads the entry before or after the write
Readable(key) ==
    IF adminPc = "writing"
    THEN { Get(Records, key), Get(Applied(Records, adminWrite[1]), key) }
    ELSE { Get(Records, key) }

----------------------------------------------------------------------------
Init ==
    /\ Records \in { <<>>, [k \in { <<"a">> } |-> [Address |-> "10.0.0.1", TTL |-> 300]] }
    /\ Nameservers \in NameserverConfigs
    /\ fault = "none"
    /\ pc = "idle"
    /\ handler = "none"
    /\ request = NewMsg
    /\ answers = <<>>
    /\ unknown = <<>>
    /\ record = <<>>
    /\ targets = {}
    /\ pending = {}
    /\ collected = <<>>
    /\ ns = 1
    /\ sent = <<>>
    /\ exchanges = <<>>
    /\ reply = <<>>
    /\ adminPc = "idle"
    /\ adminWrite = <<>>
    /\ adminResp = 0
    /\ listPc = "idle"
    /\ listed = <<>>
    /\ listSeen = {}
    /\ mux = {}
    /\ serving = FALSE

----------------------------------------------------------------------------
(* main: the listener goroutines are started, then the handlers are        *)
(* registered, then the HTTP router runs.  The two listeners run the same  *)
(* code over the same mux; the model follows the requests of one.          *)

\* the root pattern "."
RootName == <<".">>

\* go server.ListenAndServe(): the goroutine reaches its serve loop
ListenAndServe ==
    /\ fault = "none"
    /\ ~serving
    /\ serving' = TRUE
    /\ UNCHANGED <<Records, Nameservers, fault, handlerVars, adminVars, listVars, mux>>

\* dns.HandleFunc(pattern, ...): config.Name first, then "."
HandleFunc(pattern) ==
    /\ fault = "none"
    /\ pattern \notin mux
    /\ pattern = RootName => ConfigName \in mux
    /\ mux' = mux \cup {pattern}
    /\ UNCHANGED <<Records, Nameservers, fault, handlerVars, adminVars, listVars,
                   serving>>

\* main has reached router.Run: the HTTP interface accepts calls
RouterRuns == {ConfigName, RootName} \subseteq mux

----------------------------------------------------------------------------
(* The DNS side: one request goroutine, from the mux to the reply.         *)

\* the mux picks the handler of the longest registered zone the first question
\* is under, and its failure handler when there is none
Route(name) ==
    IF /\ ConfigName \in mux
       /\ name = ConfigName \/ HasSuffix(name, <<".">> \o ConfigName)
    THEN "RequestHandler"
    ELSE IF RootName \in mux THEN "RecurseHandler"
    ELSE "HandleFailed"

\* where the goroutine starts in the handler it was dispatched to
Entry(h) ==
    IF h = "RequestHandler" THEN "split"
    ELSE IF h = "RecurseHandler" THEN "recurse"
    ELSE "failed"

\* a query arrives on a listener and is dispatched
Accept(names) ==
    /\ fault = "none"
    /\ serving
    /\ pc \in {"idle", "done"}
    /\ request' = Query(names)
    /\ handler' = Route(names[1])
    /\ pc' = Entry(Route(names[1]))
    /\ answers' = <<>>
    /\ unknown' = <<>>
    /\ record' = <<>>
    /\ targets' = {}
    /\ pending' = {}
    /\ collected' = <<>>
    /\ ns' = 1
    /\ sent' = <<>>
    /\ exchanges' = <<>>
    /\ reply' = <<>>
    /\ UNCHANGED <<Records, Nameservers, fault, adminVars, listVars, mainVars>>

\* the mux found no handler: its failure handler answers with an error code,
\* SERVFAIL or REFUSED as the library at hand has it
HandleFailed ==
    /\ fault = "none"
    /\ pc = "failed"
    /\ \E rcode \in {"SERVFAIL", "REFUSED"} :
         reply' = Append(reply, SetRcode(NewMsg, request, rcode))
    /\ pc' = "done"
    /\ UNCHANGED <<Records, Nameservers, fault, handler, request, answers,
                   unknown, record, targets, pending, collected, ns, sent,
                   exchanges, adminVars, listVars, mainVars>>

\* the question the range loop of RequestHandler is at
Current == request.Question[Len(answers) + Len(unknown) + 1]

\* key := strings.TrimSuffix(question.Name, "." + config.Name)
KeyOf(name) == TrimSuffix(name, <<".">> \o ConfigName)

\* where RequestHandler goes after the question at hand
AfterQuestion ==
    IF Len(answers) + Len(unknown) + 1 < Len(request.Question) THEN "split"
    ELSE "split_done"

\* RequestHandler, one iteration of the loop over request.Question
Lookup ==
    /\ fault = "none"
    /\ pc = "split"
    /\ \/ /\ adminPc = "writing"
          /\ fault' = "race"
          /\ UNCHANGED <<Records, Nameservers, handlerVars, adminVars, listVars, mainVars>>
       \/ \E got \in Readable(KeyOf(Current.Name)) :
            IF got # <<>>
            THEN IF ValidA(got[1].TTL, got[1].Address)
                 THEN /\ record' = got
                      /\ answers' = Append(answers,
                             ARecord(Current.Name, got[1].TTL, got[1].Address))
                      /\ pc' = AfterQuestion
                      /\ UNCHANGED <<Records, Nameservers, fault, handler,
                                     request, unknown, targets, pending,
                                     collected, ns, sent, exchanges, reply,
                                     adminVars, listVars, mainVars>>
                 ELSE /\ fault' = "panic"
                      /\ record' = got
                      /\ UNCHANGED <<Records, Nameservers, pc, handler, request,
                                     answers, unknown, targets, pending,
                                     collected, ns, sent, exchanges, reply,
                                     adminVars, listVars, mainVars>>
            ELSE /\ record' = got
                 /\ unknown' = Append(unknown, Current)
                 /\ pc' = AfterQuestion
                 /\ UNCHANGED <<Records, Nameservers, fault, handler, request,
                                answers, targets, pending, collected, ns, sent,
                                exchanges, reply, adminVars, listVars, mainVars>>

\* RequestHandler after the loop: if len(unknown) > 0, call config.Resolve(unknown),
\* whose first loop fills targets
SplitDone ==
    /\ fault = "none"
    /\ pc = "split_done"
    /\ IF Len(unknown) > 0
       THEN /\ targets' = { unknown[i].Name : i \in 1..Len(unknown) }
            /\ pc' = "resolve"
       ELSE /\ targets' = targets
            /\ pc' = "reply"
    /\ collected' = <<>>
    /\ ns' = 1
    /\ UNCHANGED <<Records, Nameservers, fault, handler, request, answers,
                   unknown, record, pending, sent, exchanges, reply, adminVars, listVars, mainVars>>

\* r.Question of the message Resolve sends: the questions it was called with
ResolveQuestions(questions, stillPending) == questions

\* mutant: the loop runs to the end of the list whatever is pending
ResolveDone_ExhaustedOnly == ns > Len(Nameservers)

\* the loop over config.Nameservers ends: the range is exhausted, or
\* len(targets) == 0 breaks it
ResolveDone == ns > Len(Nameservers) \/ targets = {}

\* Resolve, the head of the loop over config.Nameservers up to the exchange;
\* when the loop ends, the return into RequestHandler's append
ResolveNext ==
    /\ fault = "none"
    /\ pc = "resolve"
    /\ IF ResolveDone
       THEN /\ answers' = answers \o collected
            /\ pc' = "reply"
            /\ UNCHANGED <<pending, sent>>
       ELSE /\ pending' = targets
            /\ sent' = <<[NewMsg EXCEPT
                            !.Question = ResolveQuestions(unknown, targets)]>>
            /\ pc' = "wait"
            /\ UNCHANGED answers
    /\ UNCHANGED <<Records, Nameservers, fault, handler, request, unknown,
                   record, targets, collected, ns, exchanges, reply, adminVars, listVars, mainVars>>

\* mutant: the list is walked from its end
NameserverAt_Reversed(i) == Nameservers[Len(Nameservers) + 1 - i]

\* the nameserver the range loop over config.Nameservers visits i-th
NameserverAt(i) == Nameservers[i]

\* mutant: a truncated response is treated as a failure
Usable_NilOnly(err) == err = "nil"

\* err == nil || err == dns.ErrTruncated
Usable(err) == err = "nil" \/ err = "truncated"

\* mutant: only the name of the first answer is taken off the pending set
AnswerNames_FirstOnly(r) ==
    IF r.Answer = <<>> THEN {} ELSE { r.Answer[1].Name }

\* the names the answers of a response are for
AnswerNames(r) == { r.Answer[i].Name : i \in 1..Len(r.Answer) }

\* an exchange as it is remembered once it has returned
Exchanged(o) ==
    [server |-> NameserverAt(ns).Address, msg |-> sent[1], pending |-> pending,
     err |-> o.err, r |-> o.r]

\* Resolve, from the return of c.Exchange to the end of the loop body
ResolveReturn ==
    /\ fault = "none"
    /\ pc = "wait"
    /\ \E o \in Outcomes(sent[1], NameserverAt(ns)) :
        /\ exchanges' = Append(exchanges, Exchanged(o))
        /\ IF Usable(o.err)
           THEN /\ collected' = collected \o o.r[1].Answer
                /\ targets' = targets \ AnswerNames(o.r[1])
           ELSE UNCHANGED <<collected, targets>>
    /\ ns' = ns + 1
    /\ sent' = <<>>
    /\ pc' = "resolve"
    /\ UNCHANGED <<Records, Nameservers, fault, handler, request, answers,
                   unknown, record, pending, reply, adminVars, listVars, mainVars>>

\* mutant: a failed exchange turns the reply into a server failure
ReplyMsg_SurfaceFailure ==
    IF \E i \in 1..Len(exchanges) : exchanges[i].err = "failed"
    THEN SetRcode([NewMsg EXCEPT !.Answer = answers], request, "SERVFAIL")
    ELSE SetReply([NewMsg EXCEPT !.Answer = answers,
                                 !.Ns = <<NSRecord>>,
                                 !.Authoritative = TRUE,
                                 !.RecursionAvailable = TRUE],
                  request)

\* the message RequestHandler assembles
ReplyMsg ==
    SetReply([NewMsg EXCEPT !.Answer = answers,
                            !.Ns = <<NSRecord>>,
                            !.Authoritative = TRUE,
                            !.RecursionAvailable = TRUE],
             request)

\* RequestHandler, from message.Answer = answers to response.WriteMsg
Reply ==
    /\ fault = "none"
    /\ pc = "reply"
    /\ reply' = Append(reply, ReplyMsg)
    /\ pc' = "done"
    /\ UNCHANGED <<Records, Nameservers, fault, handler, request, answers,
                   unknown, record, targets, pending, collected, ns, sent,
                   exchanges, adminVars, listVars, mainVars>>

\* the message RecurseHandler forwards to each nameserver: the request itself
Forwarded(req) == req

\* mutant: only the answer section of the response is passed on
Relayed_AnswerOnly(r) == SetReply([NewMsg EXCEPT !.Answer = r.Answer], r)

\* the response RecurseHandler writes back: r with r.Compress = false
Relayed(r) == [r EXCEPT !.Compress = FALSE]

\* RecurseHandler, the head of the loop over config.Nameservers up to the
\* exchange; when the loop ends, WriteError
RecurseNext ==
    /\ fault = "none"
    /\ pc = "recurse"
    /\ IF ns > Len(Nameservers)
       THEN /\ reply' = Append(reply, ErrorMsg(request))
            /\ pc' = "done"
            /\ UNCHANGED sent
       ELSE /\ sent' = <<Forwarded(request)>>
            /\ pc' = "rwait"
            /\ UNCHANGED reply
    /\ UNCHANGED <<Records, Nameservers, fault, handler, request, answers,
                   unknown, record, targets, pending, collected, ns, exchanges,
                   adminVars, listVars, mainVars>>

\* RecurseHandler, from the return of c.Exchange to the end of the loop body
RecurseReturn ==
    /\ fault = "none"
    /\ pc = "rwait"
    /\ \E o \in Outcomes(sent[1], NameserverAt(ns)) :
        /\ exchanges' = Append(exchanges, Exchanged(o))
        /\ IF Usable(o.err)
           THEN /\ reply' = Append(reply, Relayed(o.r[1]))
                /\ pc' = "done"
                /\ ns' = ns
           ELSE /\ reply' = reply
                /\ pc' = "recurse"
                /\ ns' = ns + 1
    /\ sent' = <<>>
    /\ UNCHANGED <<Records, Nameservers, fault, handler, request, answers,
                   unknown, record, targets, pending, collected, adminVars, listVars, mainVars>>

----------------------------------------------------------------------------
(* The HTTP side: one request goroutine of the /api group.                 *)

\* mutant: a prefix of the secret is accepted
CheckSecret_Prefix(headers) ==
    /\ Len(Join(headers)) <= Len(ConfigSecret)
    /\ SubSeq(ConfigSecret, 1, Len(Join(headers))) = Join(headers)

\* CheckSecret: strings.Join(c.Request.Header["Secret"], "") == config.Secret
CheckSecret(headers) == Join(headers) = ConfigSecret

\* the map write a call makes, none for LIST and SHOW
WriteOf(method, key, body) ==
    IF method = "DESTROY" THEN <<[key |-> key, value |-> <<>>]>>
    ELSE IF method \in {"CREATE", "UPDATE"} THEN <<[key |-> key, value |-> body]>>
    ELSE <<>>

\* what a call to /api does to the HTTP goroutine: the middleware, then the
\* route's function up to its map write.  key is json.Name (CREATE) or
\* c.Param("address"); c.BindJSON rejects the body <<>>
AdminRoute(method, headers, key, body) ==
    IF ~CheckSecret(headers)
    THEN /\ adminResp' = 403
         /\ UNCHANGED <<adminPc, adminWrite>>
    ELSE IF method \in {"CREATE", "UPDATE"} /\ body = <<>>
    THEN /\ adminResp' = 400
         /\ UNCHANGED <<adminPc, adminWrite>>
    ELSE IF WriteOf(method, key, body) # <<>>
    THEN /\ adminWrite' = WriteOf(method, key, body)
         /\ adminPc' = "writing"
         /\ adminResp' = 0
    ELSE /\ adminResp' = 200
         /\ UNCHANGED <<adminPc, adminWrite>>

\* a call to /api arrives and runs up to its map write or its response
AdminCall(method, headers, key, body) ==
    /\ fault = "none"
    /\ RouterRuns
    /\ adminPc = "idle"
    /\ AdminRoute(method, headers, key, body)
    /\ listSeen' = IF listPc = "listing" /\ adminWrite' # <<>>
                   THEN listSeen \cup {Applied(Records, adminWrite'[1])}
                   ELSE listSeen
    /\ UNCHANGED <<Records, Nameservers, fault, handlerVars, listPc, listed,
                   mainVars>>

\* the map assignment or delete completes and the call returns
AdminWriteEnd ==
    /\ fault = "none"
    /\ adminPc = "writing"
    /\ Records' = Applied(Records, adminWrite[1])
    /\ adminPc' = "idle"
    /\ adminWrite' = <<>>
    /\ adminResp' = 200
    /\ listSeen' = IF listPc = "listing" THEN listSeen \cup {Records'} ELSE listSeen
    /\ UNCHANGED <<Nameservers, fault, handlerVars, listPc, listed, mainVars>>

----------------------------------------------------------------------------
(* A second HTTP goroutine serving LIST: c.JSON(200, config.Records) hands *)
(* the map itself to the JSON encoder, which walks it entry by entry while *)
(* the first goroutine may be writing.                                     *)

\* GET /api/records passes the middleware and the encoder starts on the map
ListBegin(headers) ==
    /\ fault = "none"
    /\ RouterRuns
    /\ listPc \in {"idle", "done"}
    /\ CheckSecret(headers)
    /\ listPc' = "listing"
    /\ listed' = <<>>
    /\ listSeen' = {Records} \cup
                      { Applied(Records, adminWrite[i]) : i \in 1..Len(adminWrite) }
    /\ UNCHANGED <<Records, Nameservers, fault, handlerVars, adminVars, mainVars>>

\* the encoder reads one more entry of the map
ListRead(key) ==
    /\ fault = "none"
    /\ listPc = "listing"
    /\ key \notin DOMAIN listed
    /\ \E got \in Readable(key) \ {<<>>} :
         listed' = [k \in DOMAIN listed \cup {key} |->
                      IF k = key THEN got[1] ELSE listed[k]]
    /\ UNCHANGED <<Records, Nameservers, fault, handlerVars, adminVars, listPc,
                   listSeen, mainVars>>

\* the walk meets a map write in progress: the runtime ends the process
ListRace ==
    /\ fault = "none"
    /\ listPc = "listing"
    /\ adminPc = "writing"
    /\ fault' = "race"
    /\ UNCHANGED <<Records, Nameservers, handlerVars, adminVars, listVars, mainVars>>

\* the walk finds no further entry: the body is written with what was read
ListEnd ==
    /\ fault = "none"
    /\ listPc = "listing"
    /\ \A key \in DOMAIN Records \ DOMAIN listed : <<>> \in Readable(key)
    /\ listPc' = "done"
    /\ UNCHANGED <<Records, Nameservers, fault, handlerVars, adminVars, listed,
                   listSeen, mainVars>>

----------------------------------------------------------------------------
\* the queries a client may send: 1..MaxQuestions questions
Queries == UNION { [1..n -> QNames] : n \in 1..MaxQuestions }

Next ==
    \/ ListenAndServe
    \/ \E pattern \in {ConfigName, RootName} : HandleFunc(pattern)
    \/ \E names \in Queries : Accept(names)
    \/ HandleFailed
    \/ Lookup
    \/ SplitDone
    \/ ResolveNext
    \/ ResolveReturn
    \/ Reply
    \/ RecurseNext
    \/ RecurseReturn
    \/ \E method \in Methods, headers \in HeaderChoices, key \in Keys,
          body \in Bodies :
          AdminCall(method, headers, key, body)
    \/ AdminWriteEnd

Spec == Init /\ [][Next]_vars

----------------------------------------------------------------------------
(* The HTTP interface on its own, with two goroutines, keys of either      *)
(* shape and one record payload.                                           *)

\* keys the interface is called with: "a" and "a.z."
AdminKeys == Keys \cup { <<"a", ".", "z", ".">> }

\* the JSON bodies sent: one record, or one c.BindJSON rejects
AdminBodies == { <<>>, <<[Address |-> "10.0.0.1", TTL |-> 300]>> }

AdminNext ==
    \/ \E pattern \in {ConfigName, RootName} : HandleFunc(pattern)
    \/ \E method \in Methods, headers \in HeaderChoices, key \in AdminKeys,
          body \in AdminBodies :
          AdminCall(method, headers, key, body)
    \/ AdminWriteEnd
    \/ \E headers \in HeaderChoices : ListBegin(headers)
    \/ \E key \in AdminKeys : ListRead(key)
    \/ ListRace
    \/ ListEnd

AdminSpec == Init /\ [][AdminNext]_vars

----------------------------------------------------------------------------
(* Properties.                                                             *)

\* RequestHandler has written its reply to the request at hand
Answered == pc = "done" /\ handler = "RequestHandler" /\ Len(reply) = 1

\* RecurseHandler has written its reply to the request at hand
PassedThrough == pc = "done" /\ handler = "RecurseHandler" /\ Len(reply) = 1

\* the exchanges that returned a usable response
UsableExchanges ==
    { i \in 1..Len(exchanges) : exchanges[i].err \in {"nil", "truncated"} }

\* how many elements of the sequence seq carry the name
Named(seq, name) == Cardinality({ i \in 1..Len(seq) : seq[i].Name = name })

(* C1: when RequestHandler has replied to a query for one name that its     *)
(* lookup, with ".<zone>" stripped, found in the record table, the reply    *)
(* holds exactly one answer record, owned by the queried name and carrying  *)
(* the TTL and address of the Record found, the reply is authoritative, and *)
(* no nameserver was contacted.  With several questions, all found: one    *)
(* answer per question, in order, each owned by its question's name.       *)
C1_StoredNameAnswered ==
    /\ (Answered /\ Len(request.Question) = 1 /\ record # <<>>) =>
          /\ KeyOf(request.Question[1].Name) \in Keys
          /\ reply[1].Answer = << [Name |-> request.Question[1].Name,
                                   TTL |-> record[1].TTL,
                                   Type |-> "A",
                                   Data |-> record[1].Address] >>
          /\ reply[1].Authoritative
          /\ exchanges = <<>>
          /\ sent = <<>>
    /\ (Answered /\ unknown = <<>>) =>
          /\ Len(reply[1].Answer) = Len(request.Question)
          /\ \A i \in 1..Len(request.Question) :
               /\ reply[1].Answer[i].Name = request.Question[i].Name
               /\ reply[1].Answer[i].Type = "A"
               /\ \E r \in AdminRecords :
                    /\ reply[1].Answer[i].TTL = r.TTL
                    /\ reply[1].Answer[i].Data = r.Address
          /\ reply[1].Authoritative
          /\ exchanges = <<>>

C1_Witness ==
    /\ Answered
    /\ request.Question = <<Question(<<"a", ".", "z", ".">>)>>
    /\ record = <<[Address |-> "10.0.0.2", TTL |-> 60]>>
    /\ Len(reply[1].Answer) = 1

(* C2: no interleaving of lookups and admin writes on the record table     *)
(* ends in a panic of the process, and every lookup returns absent or a    *)
(* Record some Set stored whole.                                           *)
C2_NoRaceOnRecords ==
    /\ fault # "race"
    /\ record # <<>> =>
         record[1] \in AdminRecords \cup {[Address |-> "10.0.0.1", TTL |-> 300]}

C4_NameserversInOrder ==
    /\ Len(exchanges) <= Len(Nameservers)
    /\ \A i \in 1..Len(exchanges) : exchanges[i].server = Nameservers[i].Address
    /\ Len(sent) <= 1
    /\ sent # <<>> => ns = Len(exchanges) + 1 /\ ns <= Len(Nameservers)
    /\ (/\ pc = "done"
        /\ Len(exchanges) = 2
        /\ exchanges[1].err = "failed"
        /\ exchanges[2].err = "nil") =>
          /\ exchanges[2].r[1].Extra[1].Data = Nameservers[2].Address
          /\ handler = "RecurseHandler" => reply = <<exchanges[2].r[1]>>
          /\ handler = "RequestHandler" => collected = exchanges[2].r[1].Answer

C4_Witness ==
    /\ Answered
    /\ Len(exchanges) = 2
    /\ exchanges[1].err = "failed"
    /\ exchanges[2].err = "nil"
    /\ exchanges[1].server = "A:53"
    /\ exchanges[2].server = "B:53"
    /\ collected # <<>>

\* this step is one iteration of RequestHandler's loop that did not panic
LookupStep ==
    /\ pc = "split"
    /\ fault' = "none"
    /\ Len(answers') + Len(unknown') = Len(answers) + Len(unknown) + 1

\* this step completes the map write of an admin create, update or delete
WriteCompletes == adminPc = "writing" /\ adminPc' = "idle"

(* C5: a completed admin create or update of n with r leaves n -> r in the *)
(* table and a completed delete leaves n absent; a query handled once the  *)
(* write is complete is decided on the table as it then is: answered with  *)
(* the latest record written under its key, or, the key being absent, put  *)
(* in the unknown set that goes to Resolve.  A lookup during a write sees  *)
(* the table before or after that write, nothing else.                     *)
C5_MutationsVisible ==
    [][ /\ WriteCompletes =>
             /\ adminWrite[1].value # <<>> =>
                  /\ adminWrite[1].key \in DOMAIN Records'
                  /\ Records'[adminWrite[1].key] = adminWrite[1].value[1]
             /\ adminWrite[1].value = <<>> =>
                  adminWrite[1].key \notin DOMAIN Records'
        /\ LookupStep =>
             LET name == Current.Name
                 key == KeyOf(name)
                 before == IF key \in DOMAIN Records THEN <<Records[key]>> ELSE <<>>
                 during == IF adminPc = "writing" /\ adminWrite[1].key = key
                           THEN adminWrite[1].value ELSE before
             IN  /\ record' \in {before, during}
                 /\ record' # <<>> =>
                      /\ answers' = Append(answers,
                            [Name |-> name, TTL |-> record'[1].TTL, Type |-> "A",
                             Data |-> record'[1].Address])
                      /\ unknown' = unknown
                 /\ record' = <<>> =>
                      /\ unknown' = Append(unknown, Current)
                      /\ answers' = answers
      ]_vars

\* a record only an admin write can have stored is served, and after it a
\* delete made the same name unknown
C5_Witness ==
    /\ Answered
    /\ Len(request.Question) = 2
    /\ Len(answers) >= 1
    /\ answers[1].Data = "10.0.0.2"
    /\ Len(unknown) = 1
    /\ unknown[1].Name = <<"a", ".", "z", ".">>

(* C6: when a question under the zone was not found in the table and a     *)
(* nameserver returned a usable response, RequestHandler's reply contains  *)
(* every answer record of that response, is authoritative and              *)
(* recursion-available, and its authority section is the one NS record of  *)
(* the zone.                                                               *)
C6_UpstreamAnswerInReply ==
    (Answered /\ UsableExchanges # {}) =>
        /\ \A i \in UsableExchanges :
             \A j \in 1..Len(exchanges[i].r[1].Answer) :
               \E k \in 1..Len(reply[1].Answer) :
                 reply[1].Answer[k] = exchanges[i].r[1].Answer[j]
        /\ reply[1].Authoritative
        /\ reply[1].RecursionAvailable
        /\ reply[1].Ns = << [Name |-> <<"z", ".">>, TTL |-> 3600, Type |-> "NS",
                             Data |-> <<"h", ".">>] >>

C6_Witness ==
    /\ Answered
    /\ request.Question = <<Question(<<"a", ".", "z", ".">>)>>
    /\ record = <<>>
    /\ Len(exchanges) = 1
    /\ exchanges[1].err = "truncated"
    /\ reply[1].Answer = << [Name |-> <<"a", ".", "z", ".">>, TTL |-> 0,
                             Type |-> "A", Data |-> "A:53"] >>

(* C7: the message Resolve sends to a nameserver holds exactly the         *)
(* questions pending at that moment: a name an earlier nameserver has      *)
(* answered is not sent to a later one.                                    *)
C7_OnlyPendingQuestionsSent ==
    handler = "RequestHandler" =>
        \A i \in 1..Len(exchanges) :
            { exchanges[i].msg.Question[j].Name :
                j \in 1..Len(exchanges[i].msg.Question) } = exchanges[i].pending

(* C8: a reply of RequestHandler carries, for each question of the query,  *)
(* one answer record or none, never two or more, and includes the NS       *)
(* record of the zone in its authority section.                            *)
C8_AtMostOneAnswerPerQuestion ==
    Answered =>
        /\ \A q \in 1..Len(request.Question) :
             Named(reply[1].Answer, request.Question[q].Name)
                <= Named(request.Question, request.Question[q].Name)
        /\ \E k \in 1..Len(reply[1].Ns) : reply[1].Ns[k].Type = "NS"

(* C9: RecurseHandler forwards the whole query to each nameserver it       *)
(* tries; the first usable response (truncated included) is written to the *)
(* client as received and ends the handler, so no exchange follows a       *)
(* usable one and the reply is never taken from a later nameserver.        *)
C9_FirstUsableResponseRelayed ==
    handler = "RecurseHandler" =>
        /\ \A i \in 1..Len(exchanges) : exchanges[i].msg = request
        /\ sent # <<>> => sent[1] = request
        /\ \A i \in 1..(Len(exchanges) - 1) : exchanges[i].err = "failed"
        /\ UsableExchanges # {} =>
             /\ pc = "done"
             /\ reply = << [exchanges[Len(exchanges)].r[1] EXCEPT !.Compress = FALSE] >>
        /\ pc # "done" => reply = <<>>

C9_Witness ==
    /\ PassedThrough
    /\ Len(request.Question) = 2
    /\ Len(Nameservers) = 2
    /\ Len(exchanges) = 1
    /\ exchanges[1].err = "truncated"
    /\ reply[1].Extra[1].Data = "A:53"
    /\ Len(reply[1].Answer) = 2

\* this step is a call to /api: the HTTP goroutine was idle and nothing but
\* its own variables changed
CallStep ==
    /\ fault = "none"
    /\ RouterRuns
    /\ adminPc = "idle"
    /\ UNCHANGED <<Records, Nameservers, fault, handlerVars, listPc, listed,
                   mainVars>>

UnderZone(name) ==
    \/ name = <<"z", ".">>
    \/ /\ Len(name) > 3
       /\ SubSeq(name, Len(name) - 2, Len(name)) = <<".", "z", ".">>

(* C12: every request a listener has received is in the hands of exactly   *)
(* one of the two handlers: RequestHandler when its queried name falls     *)
(* under the owned zone, RecurseHandler otherwise; no request is served    *)
(* while a handler is not yet registered.                                  *)
C12_RoutedToOneOfTwoHandlers ==
    pc # "idle" =>
        /\ handler \in {"RequestHandler", "RecurseHandler"}
        /\ handler = "RequestHandler" <=> UnderZone(request.Question[1].Name)

\* this step is the return of an exchange in Resolve
ResolveReturns == pc = "wait" /\ pc' = "resolve"

\* the exchange that returned last
LastExchange == exchanges[Len(exchanges)]

(* C13: when an exchange of Resolve returns a response, truncated or not,  *)
(* every answer record of the response is appended to the output, in       *)
(* order, whether its name is pending or not, and the pending set loses    *)
(* exactly the names that own a returned answer: the others stay pending.  *)
C13_AnswersCollectedPendingPruned ==
    [][ (ResolveReturns /\ LastExchange' .err \in {"nil", "truncated"}) =>
          LET answer == LastExchange' .r[1].Answer
          IN  /\ collected' = collected \o answer
              /\ targets' = { n \in targets :
                                \A j \in 1..Len(answer) : answer[j].Name # n }
              /\ LastExchange' .pending = targets
      ]_vars

\* a truncated response that answers a name no longer pending and leaves a
\* pending name unanswered: the answer is in the output, the name still pending
C13_Witness ==
    /\ handler = "RequestHandler"
    /\ pc = "resolve"
    /\ Len(exchanges) = 2
    /\ exchanges[2].err = "truncated"
    /\ exchanges[2].pending = { <<"a", ".", "z", ".">> }
    /\ Len(exchanges[2].r[1].Answer) = 1
    /\ exchanges[2].r[1].Answer[1].Name = <<"c", ".">>
    /\ Len(collected) = 2
    /\ collected[2] = exchanges[2].r[1].Answer[1]
    /\ targets = { <<"a", ".", "z", ".">> }

(* C14: when an exchange of Resolve fails with an error other than         *)
(* truncation, the pending set and the collected answers are as they were, *)
(* nothing is written to the client, and Resolve goes on to the next       *)
(* nameserver of the list; the reply RequestHandler then writes carries a  *)
(* success code and the answers collected from the other nameservers.      *)
C14_FailedExchangeSkipped ==
    [][ /\ (ResolveReturns /\ LastExchange' .err = "failed") =>
              /\ targets' = targets
              /\ collected' = collected
              /\ reply' = reply
              /\ ns' = ns + 1
              /\ LastExchange' .server = Nameservers[ns].Address
        /\ (pc = "reply" /\ pc' = "done") =>
              /\ reply' = <<reply'[1]>>
              /\ reply'[1].Rcode = "NOERROR"
              /\ reply'[1].Answer = answers
              /\ \A i \in UsableExchanges :
                   \A j \in 1..Len(exchanges[i].r[1].Answer) :
                     \E k \in 1..Len(answers) :
                       answers[k] = exchanges[i].r[1].Answer[j]
      ]_vars

C14_Witness ==
    /\ Answered
    /\ Len(exchanges) = 2
    /\ exchanges[1].err = "failed"
    /\ exchanges[1].server = "A:53"
    /\ exchanges[2].err = "nil"
    /\ exchanges[2].server = "B:53"
    /\ exchanges[2].pending = exchanges[1].pending
    /\ Len(exchanges[2].r[1].Answer) = 2
    /\ reply[1].Rcode = "NOERROR"
    /\ reply[1].Answer = exchanges[2].r[1].Answer

\* the names of the questions RequestHandler handed to Resolve
Unresolved == { unknown[i].Name : i \in 1..Len(unknown) }

\* the names answered by the usable exchanges before the i-th
AnsweredBefore(i) ==
    UNION { { exchanges[j].r[1].Answer[k].Name :
                k \in 1..Len(exchanges[j].r[1].Answer) } :
            j \in { u \in UsableExchanges : u < i } }

(* C15: Resolve contacts a nameserver only while some input question has   *)
(* not been matched by a returned answer and the list is not exhausted,    *)
(* and it returns only when the pending set is empty or every nameserver   *)
(* has been contacted; when nothing was handed to Resolve no nameserver is *)
(* contacted at all.                                                       *)
C15_StopsWhenNothingPending ==
    handler = "RequestHandler" =>
        /\ \A i \in 1..Len(exchanges) :
             /\ exchanges[i].pending # {}
             /\ Unresolved \ AnsweredBefore(i) # {}
             /\ i <= Len(Nameservers)
        /\ sent # <<>> =>
             /\ Unresolved \ AnsweredBefore(Len(exchanges) + 1) # {}
             /\ Len(exchanges) < Len(Nameservers)
        /\ pc \in {"reply", "done"} =>
             \/ Unresolved \ AnsweredBefore(Len(exchanges) + 1) = {}
             \/ Len(exchanges) = Len(Nameservers)
        /\ (pc \in {"reply", "done"} /\ unknown = <<>>) => exchanges = <<>>

\* the first of two nameservers answers both questions: the second is not asked
C15_Witness ==
    /\ Answered
    /\ Len(Nameservers) = 2
    /\ Len(unknown) = 2
    /\ Len(exchanges) = 1
    /\ exchanges[1].err = "nil"
    /\ Len(exchanges[1].r[1].Answer) = 2
    /\ targets = {}

\* how many questions of the request were answered from the record table
FromTable == Len(request.Question) - Len(unknown)

(* C16: whatever the nameservers did, a reply of RequestHandler has a      *)
(* success code, is authoritative and recursion-available and carries the  *)
(* NS record of the zone; its answer section holds the records made from   *)
(* the table and the records nameservers returned, nothing else, so a      *)
(* question found nowhere has no answer in it.  When every nameserver      *)
(* failed or none is configured, only the records from the table remain.   *)
C16_UnresolvedQuestionOmitted ==
    Answered =>
        /\ reply[1].Response
        /\ reply[1].Rcode = "NOERROR"
        /\ reply[1].Rcode \notin {"NXDOMAIN", "SERVFAIL"}
        /\ reply[1].Authoritative
        /\ reply[1].RecursionAvailable
        /\ reply[1].Ns = << [Name |-> <<"z", ".">>, TTL |-> 3600, Type |-> "NS",
                             Data |-> <<"h", ".">>] >>
        /\ Len(reply[1].Answer) >= FromTable
        /\ \A k \in (FromTable + 1)..Len(reply[1].Answer) :
             \E i \in UsableExchanges :
               \E j \in 1..Len(exchanges[i].r[1].Answer) :
                 reply[1].Answer[k] = exchanges[i].r[1].Answer[j]
        /\ UsableExchanges = {} => Len(reply[1].Answer) = FromTable
        /\ \A u \in 1..Len(unknown) :
             (unknown[u].Name \notin AnsweredBefore(Len(exchanges) + 1)) =>
               \A k \in (FromTable + 1)..Len(reply[1].Answer) :
                 reply[1].Answer[k].Name # unknown[u].Name

\* a name under the zone, absent from the table, both nameservers failing
C16_Witness ==
    /\ Answered
    /\ request.Question = <<Question(<<"a", ".", "z", ".">>)>>
    /\ Len(unknown) = 1
    /\ Len(exchanges) = 2
    /\ UsableExchanges = {}
    /\ reply[1].Answer = <<>>
    /\ reply[1].Rcode = "NOERROR"

(* C18: every Record of the record table has a non-negative TTL: a create  *)
(* or update that carries a negative TTL leaves the table as it was.       *)
C18_NonNegativeTTL ==
    \A k \in DOMAIN Records : Records[k].TTL >= 0

(* C19: RequestHandler, handling a query for a name stored through the     *)
(* interface, gets to its reply: building the answer record in MustRR      *)
(* never aborts the handler.                                               *)
C19_MustRRNeverAborts ==
    (handler = "RequestHandler" /\ record # <<>>) => fault # "panic"

\* a step of the handler the request was dispatched to
HandlerStep ==
    \/ Lookup
    \/ SplitDone
    \/ ResolveNext
    \/ ResolveReturn
    \/ Reply
    \/ RecurseNext
    \/ RecurseReturn

(* C20: an invocation of RequestHandler or RecurseHandler that has not     *)
(* written its reply can always take its next step (every exchange         *)
(* returning), makes at most one exchange with each configured nameserver, *)
(* and has written exactly one reply when it ends, none before.            *)
C20_HandlerTerminatesWithOneReply ==
    handler \in {"RequestHandler", "RecurseHandler"} =>
        /\ pc # "done" => ENABLED HandlerStep
        /\ Len(exchanges) <= Len(Nameservers)
        /\ \A i, j \in 1..Len(exchanges) :
             exchanges[i].server = exchanges[j].server => i = j
        /\ pc = "done" => Len(reply) = 1
        /\ pc # "done" => reply = <<>>

(* C11: the mapping a list call returns equals the contents the record     *)
(* table had at one instant during the call, whatever creates, updates and *)
(* deletes ran meanwhile, and the call is not ended by them.               *)
C11_ListIsSnapshot ==
    /\ listPc = "done" => listed \in listSeen
    /\ listPc = "listing" => fault # "race"

(* C17: no key of the record table ends with the zone suffix ".z." or is   *)
(* the zone itself: every key is relative to the zone, the key             *)
(* RequestHandler derives from a queried name by stripping ".z.".          *)
C17_KeysZoneRelative ==
    \A k \in DOMAIN Records :
        /\ k # <<"z", ".">>
        /\ ~(/\ Len(k) >= 3
             /\ SubSeq(k, Len(k) - 2, Len(k)) = <<".", "z", ".">>)

====
